---- MODULE Spec2Model ----
(***************************************************************************)
(* Grade ingestion pipeline of batch_grades_processing.                    *)
(*                                                                         *)
(* scrape_lab_grades / scrape_lecture_grades (src/scrape.py) run Phase 1   *)
(* (ChunkedWorkerPool, src/workers/__init__.py: one scraper per worker,    *)
(* each walking its chunk with D2LGradesScraper.scrape_all_ous) and then   *)
(* Phase 2 (save_grades_to_db of every returned scraper, one after the     *)
(* other, against the SQLAlchemy session of src/database).                 *)
(*                                                                         *)
(* Numbers.  Points (numerators, denominators, raw scores) are integers.   *)
(* Percentages are carried in sixths of a percent point (100% = 600), so   *)
(* that /3 and /2 of calculate_overall_grades are exact on the inputs the  *)
(* model enumerates.  NaN and +inf of the float arithmetic are NaN and Inf.*)
(***************************************************************************)
EXTENDS Integers, Sequences, FiniteSets, TLC

VARIABLES
    pc,         \* orchestrator position: idle, collect, unwind, phase2, saving, done, aborted
    run,        \* parameters of the call: kind, semester, items, num_workers, delete flag
    workers,    \* Phase-1 worker w: its scraper and its task's state
    results,    \* ChunkedWorkerPool.run: the results collected so far (worker ids)
    si,         \* Phase 2: index of the scraper being saved
    ti,         \* save_grades_to_db: index of the table in grades_dataframes_map
    ri,         \* save_grades_to_db: index of the next row of the table
    committed,  \* the Grade Store as committed
    session,    \* the open session's view (committed + flushed + pending)
    sessions,   \* number of open sessions
    hist,       \* history of the run (attempted / failed / committed tables, row log)
    alg,        \* inputs and results of the store-level ingestion sequences
    pool,       \* a worker pool on plain items: buckets, jobs, results of run()
    calc,        \* a StudentGrade row and raw score the derived fields are computed for
    res         \* column resolution of one export: the headers, the parse, the save

vars == <<pc, run, workers, results, si, ti, ri, committed, session, sessions, hist, alg,
         pool, calc, res>>

-----------------------------------------------------------------------------
(* Bounds *)

\* longest list of site identifiers handed to one call
MaxItems == 2
\* largest num_workers
MaxWorkers == 2
\* longest sequence of store-level ingestions
MaxIngest == 3
\* items and workers of the pools whose distribution is computed
MaxPoolItems == 10
MaxPoolWorkers == 5
\* items and workers of the pools that are run, and runs of one pool
MaxRunItems == 3
MaxRunWorkers == 3
MaxRuns == 2
\* raw final-project points of the rows whose derived fields are computed
MaxRawScore == 3

-----------------------------------------------------------------------------
(* Values *)

None == <<>>
\* an attribute a row of a table does not have
NoAttr == "AttributeError"
Some(v) == <<v>>
Val(o) == o[1]

\* one percent point
Unit == 2 * 3
Pct(p) == p * Unit
NaN == 0 - 1
Inf == Pct(100) * 1000

Kinds == {"LAB", "LECTURE"}
Semesters == {"202580"}
Students == {"E001", "E002"}
OUs == {"101", "102", "103"}

\* the course name shown on the site of an OU, split at "-"
PageName(ou) == <<"CSCI", "1150", ou>>

SeqSum(s) == IF s = <<>> THEN 0 ELSE IF Len(s) = 1 THEN s[1]
             ELSE IF Len(s) = 2 THEN s[1] + s[2] ELSE s[1] + s[2] + s[3]

-----------------------------------------------------------------------------
(* Grade Aggregator: parse_data_from_grades_csv after column resolution *)

\* fillna(0)
FillNa(x) == IF x = NaN THEN 0 ELSE x

\* Series.mode()[0]: the most frequent value, the smallest one among ties
Count(col, v) == Cardinality({i \in DOMAIN col : col[i] = v})
Mode(col) ==
    LET vals == {col[i] : i \in DOMAIN col}
        best == {v \in vals : \A u \in vals : Count(col, u) <= Count(col, v)}
    IN CHOOSE v \in best : \A u \in best : v <= u

\* Series.replace(0, denom_mode)
ReplaceZero(x, m) == IF x = 0 THEN m ELSE x

\* 100 * (numerator / denominator) in float arithmetic
Average(n, d) ==
    IF d = 0 THEN (IF n = 0 THEN NaN ELSE Inf)
    ELSE (Pct(100) * n) \div d

\* 100 * (x / final_project_maxpoints)
NormalizeDca(x, maxpoints) == (Pct(100) * x) \div maxpoints

\* "Email".lower() and the login handle: the part before "@"
Email(local) == <<local, "etsu.edu">>
Username(email) == email[1]

LabParse(raw, maxpoints) ==
    LET den == [i \in DOMAIN raw |-> FillNa(raw[i].den)]
        m == Mode(den)
    IN [i \in DOMAIN raw |->
          LET n == FillNa(raw[i].num)
              d == ReplaceZero(den[i], m)
          IN [OrgDefinedId |-> raw[i].id,
              Username |-> Username(raw[i].email),
              Email |-> raw[i].email,
              \* "last" in colname sets first_name_idx, "first" sets last_name_idx
              Last_Name |-> raw[i].first,
              First_Name |-> raw[i].last,
              lab_numerator |-> n,
              lab_denominator |-> d,
              dca_score |-> NormalizeDca(FillNa(raw[i].fp), maxpoints),
              lab_average |-> Average(n, d)]]

LectureParse(raw) ==
    LET eden == [i \in DOMAIN raw |-> FillNa(raw[i].eden)]
        qden == [i \in DOMAIN raw |-> FillNa(raw[i].qden)]
        em == Mode(eden)
        qm == Mode(qden)
    IN [i \in DOMAIN raw |->
          LET en == FillNa(raw[i].enum)
              ed == ReplaceZero(eden[i], em)
              qn == FillNa(raw[i].qnum)
              qd == ReplaceZero(qden[i], qm)
          IN [OrgDefinedId |-> raw[i].id,
              Username |-> Username(raw[i].email),
              Email |-> raw[i].email,
              Last_Name |-> raw[i].first,
              First_Name |-> raw[i].last,
              exit_tickets_numerator |-> en,
              exit_tickets_denominator |-> ed,
              quizzes_numerator |-> qn,
              quizzes_denominator |-> qd,
              \* round(ratio, 6) leaves the ratios the model enumerates as they are
              exit_tickets_average |-> Average(en, ed),
              quizzes_average |-> Average(qn, qd)]]

-----------------------------------------------------------------------------
(* Grade Store: the rows of src/database/models.py *)

EmptyStore == [courses |-> {}, students |-> {}, grades |-> {}, snaps |-> <<>>]

\* StudentGrade.calculate_overall_grades
Components(g) ==
    (IF g.lab_average # None THEN <<Val(g.lab_average)>> ELSE <<>>)
    \o (IF g.quizzes_average # None THEN <<Val(g.quizzes_average)>> ELSE <<>>)
    \o (IF g.exit_tickets_average # None THEN <<Val(g.exit_tickets_average)>> ELSE <<>>)

\* mutant: the mean of the components that are present
PreFinalMean(g) ==
    IF Len(Components(g)) > 0 THEN Some(SeqSum(Components(g)) \div Len(Components(g)))
    ELSE None

PreFinal(g) ==
    IF Len(Components(g)) > 0 THEN Some(SeqSum(Components(g)) \div 3) ELSE None

PostFinal(g, pre) ==
    IF pre # None /\ g.dca_score # None /\ Val(g.dca_score) # 0 /\ Val(g.dca_score) > 0
    THEN Some((Val(pre) + Val(g.dca_score)) \div 2)
    ELSE None

calculate_overall_grades(g) ==
    LET pre == PreFinal(g)
    IN [g EXCEPT !.overall_grade_pre_final = pre,
                 !.overall_grade_post_final = PostFinal(g, pre)]

\* StudentGrade.current_grade: post-final if available, otherwise pre-final
current_grade(g) ==
    IF g.overall_grade_post_final # None THEN g.overall_grade_post_final
    ELSE g.overall_grade_pre_final

\* mutant: a score of zero counts as a final project
has_final_project_from_zero(g) == g.dca_score # None /\ Val(g.dca_score) >= 0

\* StudentGrade.has_final_project
has_final_project(g) == g.dca_score # None /\ Val(g.dca_score) > 0

\* StudentGrade(student_id=..., semester=...): every other column unset
NewStudentGrade(org_id, semester) ==
    [student_id |-> org_id, semester |-> semester,
     lab_course_ou |-> None, lab_numerator |-> None, lab_denominator |-> None,
     lab_average |-> None, dca_score |-> None,
     lecture_course_ou |-> None, quizzes_numerator |-> None,
     quizzes_denominator |-> None, quizzes_average |-> None,
     exit_tickets_numerator |-> None, exit_tickets_denominator |-> None,
     exit_tickets_average |-> None,
     overall_grade_pre_final |-> None, overall_grade_post_final |-> None,
     new |-> TRUE]

\* float(x) if not pd.isna(x) else 0.0
FloatOrZero(x) == IF x = NaN THEN 0 ELSE x

\* CheckConstraint('x >= 0 AND x <= 100'): a NULL passes
InRange(o) == o = None \/ (Val(o) >= 0 /\ Val(o) <= Pct(100))

CheckSnapshot(sn) ==
    /\ InRange(sn.lab_average)
    /\ InRange(sn.dca_score)
    /\ InRange(sn.quizzes_average)
    /\ InRange(sn.exit_tickets_average)

\* Column(Float, default=0): an unset dca_score is written as 0
InsertDefaults(g) ==
    [g EXCEPT !.dca_score = IF g.new /\ g.dca_score = None THEN Some(0) ELSE g.dca_score,
              !.new = FALSE]

\* what a flush writes: the pending rows, as the INSERT/UPDATE statements store them
Flushed(s) == [s EXCEPT !.grades = {InsertDefaults(g) : g \in s.grades}]

\* mutant: the table carries no UNIQUE constraint
NoUniqueConstraint(s) == TRUE

\* UniqueConstraint('student_id', 'semester', name='uq_student_semester')
UniqueStudentSemester(s) ==
    \A g \in s.grades : \A h \in s.grades :
        (g.student_id = h.student_id /\ g.semester = h.semester) => g = h

\* the flush raises IntegrityError when a pending row breaks a CHECK or the
\* UNIQUE constraint
FlushRaises(s) ==
    \/ \E i \in DOMAIN s.snaps : ~CheckSnapshot(s.snaps[i])
    \/ ~UniqueStudentSemester(s)

\* db.query(Course).filter_by(ou=ou).first()
CourseOf(s, ou) == {c \in s.courses : c.ou = ou}
\* db.query(Student).filter_by(org_defined_id=org_id).first()
StudentOf(s, org_id) == {st \in s.students : st.org_defined_id = org_id}
\* db.query(StudentGrade).filter_by(student_id=org_id, semester=semester).first():
\* autoflush is off, so the query sees flushed rows only
GradeOf(s, org_id, semester) ==
    {g \in s.grades : g.student_id = org_id /\ g.semester = semester /\ ~g.new}

\* course_type given to a Section created by each flow
CourseTypeOf(kind) == IF kind = "LAB" THEN "LAB" ELSE "LAB"

\* mutant: a Section that exists takes the values of the later observation
GetOrCreateCourseOverwrite(s, kind, tbl, semester) ==
    [s EXCEPT !.courses = {c \in @ : c.ou # tbl.ou} \cup
            {[ou |-> tbl.ou,
              course_name |-> <<tbl.name[1], tbl.name[2]>>,
              course_type |-> IF kind = "LAB" THEN "LAB" ELSE "LAB",
              section |-> tbl.name[3],
              semester |-> semester]}]

\* "Get or create course": course_name is parts 0-1 of the page name, section part 2
GetOrCreateCourse(s, kind, tbl, semester) ==
    IF CourseOf(s, tbl.ou) # {} THEN s
    ELSE [s EXCEPT !.courses = @ \cup
            {[ou |-> tbl.ou,
              course_name |-> <<tbl.name[1], tbl.name[2]>>,
              course_type |-> CourseTypeOf(kind),
              section |-> tbl.name[3],
              semester |-> semester]}]

\* "Get or create student": an existing Student is left as it is
GetOrCreateStudent(s, row) ==
    IF StudentOf(s, row.OrgDefinedId) # {} THEN s
    ELSE [s EXCEPT !.students = @ \cup
            {[org_defined_id |-> row.OrgDefinedId,
              username |-> row.Username,
              email |-> row.Email,
              last_name |-> row.Last_Name,
              first_name |-> row.First_Name]}]

LabSnapshot(ou, row) ==
    [student_id |-> row.OrgDefinedId, course_ou |-> ou,
     lab_numerator |-> Some(FloatOrZero(row.lab_numerator)),
     lab_denominator |-> Some(FloatOrZero(row.lab_denominator)),
     lab_average |-> Some(FloatOrZero(row.lab_average)),
     dca_score |-> Some(FloatOrZero(row.dca_score)),
     quizzes_numerator |-> None, quizzes_denominator |-> None, quizzes_average |-> None,
     exit_tickets_numerator |-> None, exit_tickets_denominator |-> None,
     exit_tickets_average |-> None]

LectureSnapshot(ou, row) ==
    [student_id |-> row.OrgDefinedId, course_ou |-> ou,
     lab_numerator |-> None, lab_denominator |-> None, lab_average |-> None,
     dca_score |-> Some(0),
     quizzes_numerator |-> Some(FloatOrZero(row.quizzes_numerator)),
     quizzes_denominator |-> Some(FloatOrZero(row.quizzes_denominator)),
     quizzes_average |-> Some(FloatOrZero(row.quizzes_average)),
     exit_tickets_numerator |-> Some(FloatOrZero(row.exit_tickets_numerator)),
     exit_tickets_denominator |-> Some(FloatOrZero(row.exit_tickets_denominator)),
     exit_tickets_average |-> Some(FloatOrZero(row.exit_tickets_average))]

\* "Update lab fields"
UpdateLabFields(g, ou, row) ==
    [g EXCEPT !.lab_course_ou = Some(ou),
              !.lab_numerator = Some(FloatOrZero(row.lab_numerator)),
              !.lab_denominator = Some(FloatOrZero(row.lab_denominator)),
              !.lab_average = Some(FloatOrZero(row.lab_average)),
              !.dca_score = Some(FloatOrZero(row.dca_score))]

\* mutant: the lecture flow also writes the final-project score its snapshot carries
UpdateLectureFieldsResetDca(g, ou, row) ==
    [g EXCEPT !.lecture_course_ou = Some(ou),
              !.dca_score = Some(0),
              !.quizzes_numerator = Some(FloatOrZero(row.quizzes_numerator)),
              !.quizzes_denominator = Some(FloatOrZero(row.quizzes_denominator)),
              !.quizzes_average = Some(FloatOrZero(row.quizzes_average)),
              !.exit_tickets_numerator = Some(FloatOrZero(row.exit_tickets_numerator)),
              !.exit_tickets_denominator = Some(FloatOrZero(row.exit_tickets_denominator)),
              !.exit_tickets_average = Some(FloatOrZero(row.exit_tickets_average))]

\* "Update lecture fields"
UpdateLectureFields(g, ou, row) ==
    [g EXCEPT !.lecture_course_ou = Some(ou),
              !.quizzes_numerator = Some(FloatOrZero(row.quizzes_numerator)),
              !.quizzes_denominator = Some(FloatOrZero(row.quizzes_denominator)),
              !.quizzes_average = Some(FloatOrZero(row.quizzes_average)),
              !.exit_tickets_numerator = Some(FloatOrZero(row.exit_tickets_numerator)),
              !.exit_tickets_denominator = Some(FloatOrZero(row.exit_tickets_denominator)),
              !.exit_tickets_average = Some(FloatOrZero(row.exit_tickets_average))]

\* mutant: a new StudentGrade for every row, without the query
FindOrNewGradeNoLookup(s, org_id, semester) == NewStudentGrade(org_id, semester)

\* "Update or create StudentGrade": the row the query found, or a new one
FindOrNewGrade(s, org_id, semester) ==
    IF GradeOf(s, org_id, semester) # {}
    THEN CHOOSE g \in GradeOf(s, org_id, semester) : TRUE
    ELSE NewStudentGrade(org_id, semester)

\* mutant: a StudentGrade that exists is left as it is
UpsertGradeKeepFirst(s, kind, ou, semester, row) ==
    IF GradeOf(s, row.OrgDefinedId, semester) # {} THEN s
    ELSE LET old == NewStudentGrade(row.OrgDefinedId, semester)
             upd == IF kind = "LAB" THEN UpdateLabFields(old, ou, row)
                    ELSE UpdateLectureFields(old, ou, row)
         IN [s EXCEPT !.grades = @ \cup {calculate_overall_grades(upd)}]

\* mutant: the side's fields are written and the overall grades left as they were
UpsertGradeNoRecompute(s, kind, ou, semester, row) ==
    LET old == FindOrNewGrade(s, row.OrgDefinedId, semester)
        upd == IF kind = "LAB" THEN UpdateLabFields(old, ou, row)
               ELSE UpdateLectureFields(old, ou, row)
    IN [s EXCEPT !.grades = (@ \ {old}) \cup {upd}]

\* the StudentGrade is updated in place, or added, then calculate_overall_grades()
UpsertGrade(s, kind, ou, semester, row) ==
    LET old == FindOrNewGrade(s, row.OrgDefinedId, semester)
        upd == IF kind = "LAB" THEN UpdateLabFields(old, ou, row)
               ELSE UpdateLectureFields(old, ou, row)
    IN [s EXCEPT !.grades = (@ \ {old}) \cup {calculate_overall_grades(upd)}]

\* mutant: no second snapshot for a student of a section
AddSnapshotOnce(s, kind, ou, row) ==
    IF \E i \in DOMAIN s.snaps :
          s.snaps[i].student_id = row.OrgDefinedId /\ s.snaps[i].course_ou = ou
    THEN s
    ELSE [s EXCEPT !.snaps = Append(@, IF kind = "LAB" THEN LabSnapshot(ou, row)
                                       ELSE LectureSnapshot(ou, row))]

\* mutant: the snapshot of a student of a section is written over the earlier one
AddSnapshotReplace(s, kind, ou, row) ==
    LET sn == IF kind = "LAB" THEN LabSnapshot(ou, row) ELSE LectureSnapshot(ou, row)
        same(i) == s.snaps[i].student_id = row.OrgDefinedId /\ s.snaps[i].course_ou = ou
    IN IF \E i \in DOMAIN s.snaps : same(i)
       THEN [s EXCEPT !.snaps = [i \in DOMAIN s.snaps |-> IF same(i) THEN sn ELSE s.snaps[i]]]
       ELSE [s EXCEPT !.snaps = Append(@, sn)]

\* "Create snapshot": db.add(GradeSnapshot(...))
AddSnapshot(s, kind, ou, row) ==
    [s EXCEPT !.snaps = Append(@, IF kind = "LAB" THEN LabSnapshot(ou, row)
                                  ELSE LectureSnapshot(ou, row))]

\* row.Last_Name and row.First_Name, read for a new Student only: AttributeError
\* when the table has no column of that name
HasNames(row) == row.Last_Name # NoAttr /\ row.First_Name # NoAttr

\* one iteration of "for row in df.itertuples()": the session after it, or the raise
\* of the flush that follows a new Student
SaveRow(s, kind, ou, semester, row) ==
    LET isNew == StudentOf(s, row.OrgDefinedId) = {}
        s1 == IF isNew THEN Flushed(GetOrCreateStudent(s, row)) ELSE s
    IN IF isNew /\ (~HasNames(row) \/ FlushRaises(s))
       THEN [raised |-> TRUE, db |-> s]
       ELSE [raised |-> FALSE,
             db |-> UpsertGrade(AddSnapshot(s1, kind, ou, row), kind, ou, semester, row)]

\* db.commit(): flush, then make the transaction's writes the store
Commit(s) == [raised |-> FlushRaises(s), db |-> Flushed(s)]

\* mutant: the rows flushed before the failure stay in the store
RollbackKeepsFlushed(c, s) == Flushed(s)

\* db.rollback(): what the store holds after a failed table
Rollback(c, s) == c

-----------------------------------------------------------------------------
(* Exports: what the gradebook export of a section holds *)

Identity(id) ==
    IF id = "E001" THEN [email |-> Email("doej"), last |-> "Doe", first |-> "Jane"]
    ELSE [email |-> Email("roer"), last |-> "Roe", first |-> "Rick"]

LabRow(id, n, d, f) ==
    [id |-> id, email |-> Identity(id).email, last |-> Identity(id).last,
     first |-> Identity(id).first, num |-> n, den |-> d, fp |-> f]

LectureRow(id, qn, qd, en, ed) ==
    [id |-> id, email |-> Identity(id).email, last |-> Identity(id).last,
     first |-> Identity(id).first, qnum |-> qn, qden |-> qd, enum |-> en, eden |-> ed]

\* exports a worker may download in a run: a two-row table, and a two-row table
\* whose first row is over 100%
LabExports ==
    { <<LabRow("E001", 45, 50, 90), LabRow("E002", 25, 50, 0)>>,
      <<LabRow("E001", 60, 50, 0), LabRow("E002", 25, 50, 0)>> }

LectureExports ==
    { <<LectureRow("E001", 40, 50, 35, 50), LectureRow("E002", 50, 50, 0, 50)>>,
      <<LectureRow("E001", 55, 50, 35, 50), LectureRow("E002", 50, 50, 0, 50)>> }

\* final_project_maxpoints when the final-project header carries no maxpoints: token
final_project_maxpoints == 100

RunExports(kind) == IF kind = "LAB" THEN LabExports ELSE LectureExports

\* parse_data_from_grades_csv: the entry added to grades_dataframes_map
\* under the key f"{course_name}_{ou}"
ParsedTable(kind, ou, raw) ==
    [ou |-> ou, name |-> PageName(ou),
     df |-> IF kind = "LAB" THEN LabParse(raw, final_project_maxpoints) ELSE LectureParse(raw)]

-----------------------------------------------------------------------------
(* Chunk Distributor: ChunkedWorkerPool *)

\* self.items[a:b] with 0-based a, b
Slice(items, a, b) == [k \in 1..(b - a) |-> items[a + k]]

\* mutant: the last workers get the extra item
ChunkSizeExtraLast(n, w, idx) == (n \div w) + (IF idx >= w - (n % w) THEN 1 ELSE 0)

\* chunk_size of worker_idx: the first "remainder" workers get an extra item
ChunkSize(n, w, idx) == (n \div w) + (IF idx < n % w THEN 1 ELSE 0)

RECURSIVE ChunkStart(_, _, _)
ChunkStart(n, w, idx) ==
    IF idx = 0 THEN 0 ELSE ChunkStart(n, w, idx - 1) + ChunkSize(n, w, idx - 1)

\* _distribute_items_chunked: chunk of worker_idx 0..W-1 is chunks[worker_idx + 1]
DistributeItemsChunked(items, w) ==
    [k \in 1..w |->
        Slice(items, ChunkStart(Len(items), w, k - 1),
              ChunkStart(Len(items), w, k - 1) + ChunkSize(Len(items), w, k - 1))]

-----------------------------------------------------------------------------
(* Round-robin distributor: RoundRobinWorkerPool *)

\* mutant: the bucket after the one the index names
BucketIndexNext(idx, w) == (idx + 1) % w

\* buckets[idx % self.num_workers], idx 0-based
BucketIndex(idx, w) == idx % w

\* _distribute_items_round_robin after the first n items of the enumerate loop
RECURSIVE RoundRobinUpTo(_, _, _)
RoundRobinUpTo(items, w, n) ==
    IF n = 0 THEN [k \in 1..w |-> <<>>]
    ELSE [RoundRobinUpTo(items, w, n - 1) EXCEPT
            ![BucketIndex(n - 1, w) + 1] = Append(@, items[n])]

DistributeItemsRoundRobin(items, w) == RoundRobinUpTo(items, w, Len(items))

-----------------------------------------------------------------------------
(* State *)

NoRun == [kind |-> "LAB", semester |-> "202580", items |-> <<>>, num_workers |-> 0,
          delete_downloads_on_completion |-> TRUE]

NoHist == [opened |-> 0, attempted |-> {}, failed |-> {}, commits |-> <<>>, rows |-> <<>>,
           errors |-> 0, tableStart |-> EmptyStore, outcome |-> "none", dirty |-> FALSE]

NoAlg == [n |-> 0, store |-> EmptyStore, log |-> <<>>, swapped |-> EmptyStore]

\* no pool made yet
NoPool == [strategy |-> "none", items |-> <<>>, num_workers |-> 0, buckets |-> <<>>,
           jobs |-> <<>>, taken |-> <<>>, all_results |-> <<>>, state |-> "idle",
           runs |-> 0, returned |-> None, earlier |-> None]

\* no row computed yet
NoCalc == [state |-> "idle", raw |-> None, maxpoints |-> None,
           before |-> NewStudentGrade("E001", "202580"),
           after |-> NewStudentGrade("E001", "202580"),
           current_grade |-> None, has_final_project |-> FALSE]

NoRes == [state |-> "idle", kind |-> "LAB", frame |-> <<>>, idx |-> <<>>, ok |-> FALSE,
          maxpoints |-> None, map |-> <<>>, pre |-> EmptyStore, store |-> EmptyStore,
          raised |-> FALSE]

Init ==
    /\ pc = "idle"
    /\ run = NoRun
    /\ workers = <<>>
    /\ results = <<>>
    /\ si = 0
    /\ ti = 0
    /\ ri = 0
    /\ committed = EmptyStore
    /\ session = EmptyStore
    /\ sessions = 0
    /\ hist = NoHist
    /\ alg = NoAlg
    /\ pool = NoPool
    /\ calc = NoCalc
    /\ res = NoRes

\* a list of distinct site identifiers
ItemLists ==
    {items \in UNION {[1..n -> OUs] : n \in 1..MaxItems} :
        \A i \in DOMAIN items : \A j \in DOMAIN items : items[i] = items[j] => i = j}

-----------------------------------------------------------------------------
(* Phase 1 *)

\* scrape_lab_grades / scrape_lecture_grades up to pool.run(): the chunks are
\* made and one job per chunk is submitted to the executor
StartRun ==
    /\ pc = "idle"
    /\ \E kind \in Kinds, semester \in Semesters, items \in ItemLists,
          w \in 1..MaxWorkers, del \in BOOLEAN :
        /\ run' = [kind |-> kind, semester |-> semester, items |-> items,
                   num_workers |-> w, delete_downloads_on_completion |-> del]
        /\ workers' = [k \in 1..w |->
                         [chunk |-> DistributeItemsChunked(items, w)[k],
                          pos |-> 0, state |-> "running",
                          grades_dataframes_map |-> <<>>, files_to_delete |-> <<>>,
                          attempts |-> <<>>]]
    /\ results' = <<>>
    /\ pc' = "collect"
    /\ UNCHANGED <<si, ti, ri, committed, session, sessions, hist, alg, pool, calc, res>>

\* os.getpid(): the threads of a ThreadPoolExecutor all run in the one process
getpid(w) == "pid"

\* self.worker_id = os.getpid()
worker_id(w) == getpid(w)

\* self.__class__.__name__
ClassName(kind) == IF kind = "LAB" THEN "LabGradesScraper" ELSE "LectureGradesScraper"

\* logging.getLogger(f'{self.__class__.__name__}_{self.worker_id}'): getLogger
\* gives the same Logger object for the same name
LoggerName(kind, w) == <<ClassName(kind), worker_id(w)>>

\* CURRENT_DIR / 'downloads' / 'lab_grades' (or 'lecture_grades')
DownloadsDir(kind) ==
    <<"downloads", IF kind = "LAB" THEN "lab_grades" ELSE "lecture_grades">>

\* the objects a worker task writes while it runs: its logger (handlers.clear(),
\* addHandler, every log call), the directory its browser downloads into and
\* close() removes files from, and the two collections of its scraper instance
WritesOf(kind, w) ==
    {<<"logger", LoggerName(kind, w)>>,
     <<"downloads_dir", DownloadsDir(kind)>>,
     <<"files_to_delete", w>>,
     <<"grades_dataframes_map", w>>}

\* what one call of parse_data_from_grades_csv may do
ParseResults == {"ok", "nofile", "error"}

\* get_csv_by_course_name appends the file it found to files_to_delete, on every call
FilesFound(ou, attempts) ==
    [i \in 1..Cardinality({j \in DOMAIN attempts : attempts[j] # "nofile"}) |-> ou]

\* scrape_all_ous, one identifier: parse once, and once more when that failed
ParseAttempts(a1, a2) == IF a1 = "ok" THEN <<a1>> ELSE <<a1, a2>>

\* mutant: the result of the repeated call is not looked at
ParsedFirstOnly(attempts) == attempts[1] = "ok"

\* the section's table is in grades_dataframes_map when the last call returned True
Parsed(attempts) == attempts[Len(attempts)] = "ok"

\* one iteration of "for ou in self.ous_list" with set_calculation_options succeeding
WorkerScrape(w) ==
    /\ w \in DOMAIN workers
    /\ workers[w].state = "running"
    /\ workers[w].pos < Len(workers[w].chunk)
    /\ \E a1 \in ParseResults, a2 \in ParseResults, raw \in RunExports(run.kind) :
        LET ou == workers[w].chunk[workers[w].pos + 1]
            attempts == ParseAttempts(a1, a2)
        IN workers' = [workers EXCEPT
                ![w].pos = @ + 1,
                ![w].attempts = attempts,
                ![w].files_to_delete = @ \o FilesFound(ou, attempts),
                ![w].grades_dataframes_map =
                    IF Parsed(attempts) THEN Append(@, ParsedTable(run.kind, ou, raw)) ELSE @]
    /\ UNCHANGED <<pc, run, results, si, ti, ri, committed, session, sessions, hist, alg, pool, calc, res>>

\* the same iteration with set_calculation_options failing: "scrape unsuccessful"
WorkerSkip(w) ==
    /\ w \in DOMAIN workers
    /\ workers[w].state = "running"
    /\ workers[w].pos < Len(workers[w].chunk)
    /\ workers' = [workers EXCEPT ![w].pos = @ + 1, ![w].attempts = <<>>]
    /\ UNCHANGED <<pc, run, results, si, ti, ri, committed, session, sessions, hist, alg, pool, calc, res>>

\* export_users_grades of either scraper cannot select its subtotals: exit(1)
WorkerFatal(w) ==
    /\ w \in DOMAIN workers
    /\ workers[w].state = "running"
    /\ workers[w].pos < Len(workers[w].chunk)
    /\ workers' = [workers EXCEPT ![w].state = "raised", ![w].attempts = <<>>]
    /\ UNCHANGED <<pc, run, results, si, ti, ri, committed, session, sessions, hist, alg, pool, calc, res>>

\* os.remove of a name listed twice raises FileNotFoundError
CloseRaises(del, files) ==
    del /\ \E i \in DOMAIN files : \E j \in DOMAIN files : i # j /\ files[i] = files[j]

\* scraper.close() and the return of scrape_labs_only / scrape_lectures_only
WorkerClose(w) ==
    /\ w \in DOMAIN workers
    /\ workers[w].state = "running"
    /\ workers[w].pos = Len(workers[w].chunk)
    /\ workers' = [workers EXCEPT
            ![w].attempts = <<>>,
            ![w].state =
                IF CloseRaises(run.delete_downloads_on_completion, workers[w].files_to_delete)
                THEN "raised" ELSE "returned"]
    /\ UNCHANGED <<pc, run, results, si, ti, ri, committed, session, sessions, hist, alg, pool, calc, res>>

\* mutant: results are taken and the pool is left without waiting for the thread
TaskFinishedNoWait(w) == TRUE

\* a job's thread has left _worker: Future.result() and shutdown(wait=True)
\* both block until then
TaskFinished(w) == workers[w].state # "running"

\* job.result() returns or raises once the job has finished
JobFinished(w) == TaskFinished(w)

\* executor.__exit__: shutdown(wait=True)
AllJoined == \A w \in DOMAIN workers : TaskFinished(w)

\* results = [job.result() for job in jobs], one job
CollectResult ==
    /\ pc = "collect"
    /\ Len(results) < run.num_workers
    /\ JobFinished(Len(results) + 1)
    /\ IF workers[Len(results) + 1].state = "raised"
       THEN pc' = "unwind" /\ results' = results
       ELSE pc' = pc /\ results' = Append(results, Len(results) + 1)
    /\ UNCHANGED <<run, workers, si, ti, ri, committed, session, sessions, hist, alg, pool, calc, res>>

\* leaving the "with" block: run() returns the results, or the exception leaves
\* run() and scrape_*_grades
ExitPool ==
    /\ \/ pc = "collect" /\ Len(results) = run.num_workers
       \/ pc = "unwind"
    /\ AllJoined
    /\ pc' = IF pc = "unwind" THEN "aborted" ELSE "phase2"
    /\ si' = 1
    /\ UNCHANGED <<run, workers, results, ti, ri, committed, session, sessions, hist, alg, pool, calc, res>>

-----------------------------------------------------------------------------
(* Phase 2 *)

\* mutant: Phase 2 walks the returned scrapers from the last to the first
ScraperReversed == workers[results[Len(results) + 1 - si]]

\* the scraper Phase 2 is at, and the table and row save_grades_to_db is at
Scraper == workers[results[si]]
Table == Scraper.grades_dataframes_map[ti]
Row == Table.df[ri]

\* "for idx, scraper in enumerate(scrapers, 1)": the next scraper.save_grades_to_db
\* opens its session (db = get_db()), or the loop is over
Phase2Next ==
    /\ pc = "phase2"
    /\ IF si <= Len(results)
       THEN /\ pc' = "saving"
            /\ session' = committed
            /\ sessions' = sessions + 1
            /\ ti' = 1
            /\ ri' = 0
            /\ hist' = [hist EXCEPT !.opened = @ + 1]
       ELSE /\ pc' = "done"
            /\ UNCHANGED <<session, sessions, ti, ri, hist>>
    /\ UNCHANGED <<run, workers, results, si, committed, alg, pool, calc, res>>

\* the head of "for course_ou, df in self.grades_dataframes_map.items()":
\* get or create the course, flush
SaveTableBegin ==
    /\ pc = "saving"
    /\ ri = 0
    /\ ti <= Len(Scraper.grades_dataframes_map)
    /\ session' = GetOrCreateCourse(session, run.kind, Table, run.semester)
    /\ ri' = 1
    /\ hist' = [hist EXCEPT !.attempted = @ \cup {<<si, ti>>}, !.tableStart = committed]
    /\ UNCHANGED <<pc, run, workers, results, si, ti, committed, sessions, alg, pool, calc, res>>

\* the "except" and "finally" of save_grades_to_db, then the "except" of Phase 2:
\* rollback, close, raise; Phase 2 prints the error and goes to the next scraper
SaveRaise ==
    /\ committed' = Rollback(committed, session)
    /\ session' = committed'
    /\ sessions' = sessions - 1
    /\ hist' = [hist EXCEPT !.failed = @ \cup {<<si, ti>>}, !.errors = @ + 1,
                            !.outcome = "raised", !.dirty = (session # committed)]
    /\ pc' = "phase2"
    /\ si' = si + 1
    /\ UNCHANGED <<run, workers, results, ti, ri, alg, pool, calc, res>>

\* one row of the table
SaveRowStep ==
    /\ pc = "saving"
    /\ ri >= 1
    /\ ri <= Len(Table.df)
    /\ LET r == SaveRow(session, run.kind, Table.ou, run.semester, Row)
       IN IF r.raised
          THEN SaveRaise
          ELSE /\ session' = r.db
               /\ ri' = ri + 1
               /\ hist' = [hist EXCEPT !.rows = Append(@, [at |-> <<si, ti, ri>>, id |-> Row.OrgDefinedId])]
               /\ UNCHANGED <<pc, run, workers, results, si, ti, committed, sessions, alg, pool, calc, res>>

\* db.commit() after the last row
SaveCommit ==
    /\ pc = "saving"
    /\ ri >= 1
    /\ ri = Len(Table.df) + 1
    /\ LET r == Commit(session)
       IN IF r.raised
          THEN SaveRaise
          ELSE /\ committed' = r.db
               /\ session' = r.db
               /\ ti' = ti + 1
               /\ ri' = 0
               /\ hist' = [hist EXCEPT !.commits = Append(@, [at |-> <<si, ti>>, ou |-> Table.ou])]
               /\ UNCHANGED <<pc, run, workers, results, si, sessions, alg, pool, calc, res>>

\* the store fails a statement of the table (storage fault)
SaveFault ==
    /\ pc = "saving"
    /\ ri >= 1
    /\ SaveRaise

\* the loop over the tables is over: "finally: db.close()", normal return
SaveReturn ==
    /\ pc = "saving"
    /\ ri = 0
    /\ ti > Len(Scraper.grades_dataframes_map)
    /\ sessions' = sessions - 1
    /\ pc' = "phase2"
    /\ si' = si + 1
    /\ hist' = [hist EXCEPT !.outcome = "returned"]
    /\ UNCHANGED <<run, workers, results, ti, ri, committed, session, alg, pool, calc, res>>

Worker ==
    \E w \in 1..MaxWorkers :
        WorkerScrape(w) \/ WorkerSkip(w) \/ WorkerFatal(w) \/ WorkerClose(w)

Next ==
    \/ StartRun
    \/ Worker
    \/ CollectResult
    \/ ExitPool
    \/ Phase2Next
    \/ SaveTableBegin
    \/ SaveRowStep
    \/ SaveCommit
    \/ SaveFault
    \/ SaveReturn

Spec == Init /\ [][Next]_vars

-----------------------------------------------------------------------------
(* Store-level ingestion sequences: save_grades_to_db of a scraper that holds *)
(* one table, called again and again by lab and lecture runs                  *)

\* the rows of "for row in df.itertuples()" from row i on, then db.commit()
RECURSIVE SaveRows(_, _, _, _, _)
SaveRows(s, kind, tbl, semester, i) ==
    IF i > Len(tbl.df) THEN Commit(s)
    ELSE LET r == SaveRow(s, kind, tbl.ou, semester, tbl.df[i])
         IN IF r.raised THEN r ELSE SaveRows(r.db, kind, tbl, semester, i + 1)

\* save_grades_to_db for one table: the store afterwards and whether it raised
SaveTable(c, kind, tbl, semester) ==
    LET r == SaveRows(GetOrCreateCourse(c, kind, tbl, semester), kind, tbl, semester, 1)
    IN IF r.raised THEN [raised |-> TRUE, db |-> Rollback(c, r.db)] ELSE r

\* tables of the ingestion sequences, one row per student: partial credit, a
\* second section with other values, an empty gradebook (0/0), a row over 100%
LabTables ==
    { <<LabRow("E001", 45, 50, 90)>>,
      <<LabRow("E001", 25, 50, 0), LabRow("E002", 45, 50, 90)>>,
      <<LabRow("E002", 0, 0, 0)>>,
      <<LabRow("E001", 60, 50, 0), LabRow("E002", 25, 50, 0)>> }

LectureTables ==
    { <<LectureRow("E001", 40, 50, 35, 50)>>,
      <<LectureRow("E002", 50, 50, 0, 50), LectureRow("E001", 25, 50, 50, 50)>>,
      <<LectureRow("E002", 0, 0, 0, 0)>>,
      <<LectureRow("E001", 55, 50, 35, 50), LectureRow("E002", 50, 50, 0, 50)>> }

\* tables in which one identifier comes twice
RepeatedIdTables(kind) ==
    IF kind = "LAB"
    THEN { <<LabRow("E001", 45, 50, 90), LabRow("E001", 25, 50, 0)>> }
    ELSE { <<LectureRow("E001", 40, 50, 35, 50), LectureRow("E001", 25, 50, 50, 50)>> }

KeyedTables(kind) == IF kind = "LAB" THEN LabTables ELSE LectureTables

IngestOUs == {"101", "102"}

LastTwo(log) == IF Len(log) <= 2 THEN log ELSE SubSeq(log, Len(log) - 1, Len(log))

\* one call of save_grades_to_db; swapped is the store had the last two calls
\* come in the opposite order
IngestParsed(kind, tbl, semester) ==
    LET r == SaveTable(alg.store, kind, tbl, semester)
        e == [kind |-> kind, tbl |-> tbl, semester |-> semester, ok |-> ~r.raised,
              pre |-> alg.store]
    IN alg' = [n |-> alg.n + 1,
               store |-> r.db,
               log |-> LastTwo(Append(alg.log, e)),
               swapped |->
                 IF alg.log = <<>> THEN r.db
                 ELSE LET p == alg.log[Len(alg.log)]
                      IN SaveTable(SaveTable(p.pre, kind, tbl, semester).db,
                                   p.kind, p.tbl, p.semester).db]

\* the call for the export raw of section ou
IngestTable(kind, ou, raw, semester) ==
    IngestParsed(kind, ParsedTable(kind, ou, raw), semester)

Ingest ==
    /\ alg.n < MaxIngest
    /\ \E kind \in Kinds, ou \in IngestOUs, semester \in Semesters :
         \E raw \in KeyedTables(kind) : IngestTable(kind, ou, raw, semester)
    /\ UNCHANGED <<pc, run, workers, results, si, ti, ri, committed, session, sessions, hist, pool, calc, res>>

IngestRepeatedId ==
    /\ alg.n < MaxIngest
    /\ \E kind \in Kinds, ou \in IngestOUs, semester \in Semesters :
         \E raw \in RepeatedIdTables(kind) : IngestTable(kind, ou, raw, semester)
    /\ UNCHANGED <<pc, run, workers, results, si, ti, ri, committed, session, sessions, hist, pool, calc, res>>

\* a call that the store fails (storage fault): rolled back, nothing written
IngestFault ==
    /\ alg.n < MaxIngest
    /\ alg' = [alg EXCEPT !.n = @ + 1, !.store = Rollback(alg.store, alg.store)]
    /\ UNCHANGED <<pc, run, workers, results, si, ti, ri, committed, session, sessions, hist, pool, calc, res>>

NextStore == Ingest \/ IngestFault

SpecStore == Init /\ [][NextStore]_vars

NextStoreAny == Ingest \/ IngestRepeatedId \/ IngestFault

SpecStoreAny == Init /\ [][NextStoreAny]_vars

\* one section observed again and again: in another semester, under another page
\* name, with a student whose email and last name changed in the gradebook
ObservedOU == "101"
ObservedSemesters == {"202580", "202610"}
ObservedNames == {PageName(ObservedOU), <<"CSCI", "1250", "901">>}

Renamed(row) == [row EXCEPT !.email = Email("smithj"), !.last = "Smith"]

ObservedTables(kind) ==
    IF kind = "LAB"
    THEN { <<LabRow("E001", 45, 50, 90)>>, <<Renamed(LabRow("E001", 25, 50, 0))>> }
    ELSE { <<LectureRow("E001", 40, 50, 35, 50)>>,
           <<Renamed(LectureRow("E001", 25, 50, 50, 50))>> }

IngestObserved ==
    /\ alg.n < MaxIngest
    /\ \E kind \in Kinds, semester \in ObservedSemesters, name \in ObservedNames :
         \E raw \in ObservedTables(kind) :
            IngestParsed(kind, [ParsedTable(kind, ObservedOU, raw) EXCEPT !.name = name],
                         semester)
    /\ UNCHANGED <<pc, run, workers, results, si, ti, ri, committed, session, sessions, hist,
                   pool, calc, res>>

NextObserved == IngestObserved \/ IngestFault

SpecObserved == Init /\ [][NextObserved]_vars

-----------------------------------------------------------------------------
(* The two worker pools on plain items: the distribution alone, and run() *)

Strategies == {"chunked", "round_robin"}

\* items = [0, 1, ..., n-1] shifted by one: item i of the list is i
ItemsUpTo(n) == [i \in 1..n |-> i]

Distribute(strategy, items, w) ==
    IF strategy = "chunked" THEN DistributeItemsChunked(items, w)
    ELSE DistributeItemsRoundRobin(items, w)

\* _distribute_items_chunked() / _distribute_items_round_robin() of a new pool
PoolDistribute ==
    /\ pool.state = "idle"
    /\ \E strategy \in Strategies, n \in 0..MaxPoolItems, w \in 1..MaxPoolWorkers :
         pool' = [pool EXCEPT !.strategy = strategy, !.items = ItemsUpTo(n),
                              !.num_workers = w,
                              !.buckets = Distribute(strategy, ItemsUpTo(n), w),
                              !.state = "distributed"]
    /\ UNCHANGED <<pc, run, workers, results, si, ti, ri, committed, session, sessions, hist,
                   alg, calc, res>>

SpecDistribute == Init /\ [][PoolDistribute]_vars

\* run() up to the submits: one job per chunk or bucket
Submitted(p) ==
    [p EXCEPT !.buckets = Distribute(p.strategy, p.items, p.num_workers),
              !.jobs = [k \in 1..p.num_workers |-> "running"],
              !.taken = <<>>, !.all_results = <<>>, !.returned = None,
              !.state = "collecting", !.runs = @ + 1]

PoolSubmit ==
    /\ pool.state = "idle"
    /\ \E strategy \in Strategies, n \in 0..MaxRunItems, w \in 1..MaxRunWorkers :
         pool' = Submitted([pool EXCEPT !.strategy = strategy, !.items = ItemsUpTo(n),
                                        !.num_workers = w])
    /\ UNCHANGED <<pc, run, workers, results, si, ti, ri, committed, session, sessions, hist,
                   alg, calc, res>>

\* _worker returns or raises; func is not called for an empty bucket
MayRaise(p, j) == p.strategy = "chunked" \/ p.buckets[j] # <<>>

PoolJobEnds(j) ==
    /\ pool.state \in {"collecting", "unwinding"}
    /\ j \in DOMAIN pool.jobs
    /\ pool.jobs[j] = "running"
    /\ \E how \in {"ok", "raised"} :
         /\ how = "raised" => MayRaise(pool, j)
         /\ pool' = [pool EXCEPT !.jobs[j] = how]
    /\ UNCHANGED <<pc, run, workers, results, si, ti, ri, committed, session, sessions, hist,
                   alg, calc, res>>

\* the jobs whose result run() may take next: the next one in submission order
\* (job.result() for job in jobs), or any finished one (futures.as_completed)
NextJobs(p) ==
    IF p.strategy = "chunked"
    THEN {j \in DOMAIN p.jobs : j = Len(p.taken) + 1 /\ p.jobs[j] # "running"}
    ELSE {j \in DOMAIN p.jobs : p.jobs[j] # "running"
                                  /\ \A k \in DOMAIN p.taken : p.taken[k] # j}

\* results.append of the list comprehension / all_results.extend(job.result())
Collected(p, j) ==
    IF p.strategy = "chunked" THEN Append(p.all_results, p.buckets[j])
    ELSE p.all_results \o p.buckets[j]

\* mutant: the jobs still running are cancelled when a result raises
CancelOthers(jobs) == [j \in DOMAIN jobs |-> IF jobs[j] = "running" THEN "cancelled" ELSE jobs[j]]

\* an exception leaving the with-block: shutdown(wait=True) cancels nothing
LeftRunning(jobs) == jobs

PoolTake ==
    /\ pool.state = "collecting"
    /\ \E j \in NextJobs(pool) :
         IF pool.jobs[j] = "raised"
         THEN pool' = [pool EXCEPT !.state = "unwinding", !.jobs = LeftRunning(@)]
         ELSE pool' = [pool EXCEPT !.taken = Append(@, j),
                                   !.all_results = Collected(pool, j)]
    /\ UNCHANGED <<pc, run, workers, results, si, ti, ri, committed, session, sessions, hist,
                   alg, calc, res>>

\* mutant: the with-block is left without waiting for the worker threads
ShutdownNoWait(jobs) == TRUE

\* ThreadPoolExecutor.__exit__ is shutdown(wait=True): it returns once every
\* worker thread has ended
ShutdownWait(jobs) == \A j \in DOMAIN jobs : jobs[j] # "running"

\* executor.__exit__: shutdown(wait=True); then "return results" or the exception
PoolExit ==
    /\ \/ pool.state = "collecting" /\ Len(pool.taken) = pool.num_workers
       \/ pool.state = "unwinding"
    /\ ShutdownWait(pool.jobs)
    /\ pool' = IF pool.state = "unwinding"
               THEN [pool EXCEPT !.state = "raised"]
               ELSE [pool EXCEPT !.state = "returned", !.returned = Some(pool.all_results)]
    /\ UNCHANGED <<pc, run, workers, results, si, ti, ri, committed, session, sessions, hist,
                   alg, calc, res>>

\* run() of a pool made again from the same items, func and num_workers
PoolRunAgain ==
    /\ pool.state = "returned"
    /\ pool.runs < MaxRuns
    /\ pool' = Submitted([pool EXCEPT !.earlier = pool.returned])
    /\ UNCHANGED <<pc, run, workers, results, si, ti, ri, committed, session, sessions, hist,
                   alg, calc, res>>

PoolJob == \E j \in 1..MaxRunWorkers : PoolJobEnds(j)

NextPool == PoolSubmit \/ PoolJob \/ PoolTake \/ PoolExit \/ PoolRunAgain

SpecPool == Init /\ [][NextPool]_vars

-----------------------------------------------------------------------------
(* The derived fields of one StudentGrade row *)

\* component averages and final-project scores a row may hold
AverageValues == {None, Some(0), Some(Pct(60)), Some(Pct(90))}
DcaValues == {None, Some(0), Some(Pct(50))}
\* overall grades left in the row by an earlier computation
StaleValues == {None, Some(Pct(10))}
\* final_project_maxpoints read from the header, or its default
MaxPointsValues == {1, final_project_maxpoints, 3 * final_project_maxpoints}

Computed(raw, maxpoints, g) ==
    LET a == calculate_overall_grades(g)
    IN [state |-> "computed", raw |-> raw, maxpoints |-> maxpoints, before |-> g,
        after |-> a, current_grade |-> current_grade(a),
        has_final_project |-> has_final_project(a)]

\* calculate_overall_grades() and the two properties on a row with any fields
CalcGrade ==
    /\ calc.state = "idle"
    /\ \E lab \in AverageValues, qz \in AverageValues, et \in AverageValues,
          dca \in DcaValues, stale \in StaleValues :
         calc' = Computed(None, None,
                    [NewStudentGrade("E001", "202580") EXCEPT
                        !.lab_average = lab, !.quizzes_average = qz,
                        !.exit_tickets_average = et, !.dca_score = dca,
                        !.overall_grade_pre_final = stale,
                        !.overall_grade_post_final = stale])
    /\ UNCHANGED <<pc, run, workers, results, si, ti, ri, committed, session, sessions, hist,
                   alg, pool, res>>

\* the same on the row the lab flow writes for an export row with a raw
\* final-project score
CalcLabRow ==
    /\ calc.state = "idle"
    /\ \E raw \in 0..MaxRawScore, maxpoints \in MaxPointsValues :
         calc' = Computed(Some(raw), Some(maxpoints),
                    UpdateLabFields(NewStudentGrade("E001", "202580"), "101",
                        LabParse(<<LabRow("E001", 45, 50, raw)>>, maxpoints)[1]))
    /\ UNCHANGED <<pc, run, workers, results, si, ti, ri, committed, session, sessions, hist,
                   alg, pool, res>>

NextCalc == CalcGrade \/ CalcLabRow

SpecCalc == Init /\ [][NextCalc]_vars

-----------------------------------------------------------------------------
(* Column Resolver: parse_data_from_grades_csv on the headers of an export, *)
(* and save_grades_to_db of the table it made                                *)

\* A DataFrame is a sequence of columns, left to right, each with its header
\* (name) and the cells of its rows (values); a header is the sequence of its
\* words, a ":" being a word of its own.

Smallest(S) == CHOOSE x \in S : \A y \in S : x <= y
Largest(S) == CHOOSE x \in S : \A y \in S : y <= x

Names(df) == [p \in DOMAIN df |-> df[p].name]
Has(df, name) == \E p \in DOMAIN df : df[p].name = name
\* df[name]
Named(df, name) == df[CHOOSE p \in DOMAIN df : df[p].name = name]

\* col.lower(), word by word
Lower(word) ==
    CASE word = "Last" -> "last" [] word = "First" -> "first" [] word = "Name" -> "name"
      [] word = "Numerator" -> "numerator" [] word = "Denominator" -> "denominator"
      [] word = "Subtotal" -> "subtotal" [] word = "Labs" -> "labs"
      [] word = "Quizzes" -> "quizzes" [] word = "Exit" -> "exit"
      [] word = "Tickets" -> "tickets" [] word = "Calculated" -> "calculated"
      [] word = "Final" -> "final" [] word = "Grade" -> "grade"
      [] word = "Audit" -> "audit" [] word = "Points" -> "points"
      [] word = "Part" -> "part" [] word = "<Numeric" -> "<numeric"
      [] word = "MaxPoints" -> "maxpoints" [] word = "Weight" -> "weight"
      [] word = "OrgDefinedId" -> "orgdefinedid" [] word = "Email" -> "email"
      [] word = "Username" -> "username"
      [] OTHER -> word

\* "word" in colname, for a word the headers carry whole
Contains(name, word) == \E k \in DOMAIN name : Lower(name[k]) = word

\* os.getenv('FINAL_PROJECT_LABEL', 'Audit')
final_project_label == "Audit"

\* 'maxpoints:' in colname
HasMaxPoints(name) ==
    \E k \in DOMAIN name :
        Lower(name[k]) = "maxpoints" /\ k + 1 \in DOMAIN name /\ name[k + 1] = ":"

\* col.split(':')[1]: the words between the first ":" and the next one
SplitSecond(name) ==
    LET colons == {k \in DOMAIN name : name[k] = ":"}
        c1 == Smallest(colons)
        later == {k \in colons : k > c1}
        c2 == IF later = {} THEN Len(name) + 1 ELSE Smallest(later)
    IN SubSeq(name, c1 + 1, c2 - 1)

\* the characters c of a word with c.isdigit()
DigitsOf(word) ==
    CASE word = "300" -> <<3, 0, 0>> [] word = "10" -> <<1, 0>> [] word = "2" -> <<2>>
      [] OTHER -> <<>>

\* numeric_s: "for c in points_split: if c.isdigit(): numeric_s += c"
RECURSIVE NumericS(_)
NumericS(words) ==
    IF words = <<>> THEN <<>> ELSE DigitsOf(Head(words)) \o NumericS(Tail(words))

\* int(numeric_s) of a string of digits; int("") raises ValueError
RECURSIVE ToInt(_)
ToInt(digits) ==
    IF digits = <<>> THEN 0
    ELSE 10 * ToInt(SubSeq(digits, 1, Len(digits) - 1)) + digits[Len(digits)]

\* the index variable the if / elif chain of the scan assigns for a header
LabBranch(name) ==
    IF Contains(name, "numerator") THEN "labs_subtotal_numerator_idx"
    ELSE IF Contains(name, "denominator") THEN "labs_subtotal_denominator_idx"
    ELSE IF Contains(name, "last") THEN "first_name_idx"
    ELSE IF Contains(name, "first") THEN "last_name_idx"
    \* colname.strip().startswith(self.final_project_label.lower())
    ELSE IF name # <<>> /\ Lower(name[1]) = Lower(final_project_label)
    THEN "final_project_idx"
    ELSE "none"

LectureBranch(name) ==
    IF Contains(name, "numerator")
    THEN (IF Contains(name, "exit") THEN "exit_tix_subtotal_numerator_idx"
          ELSE "quizzes_subtotal_numerator_idx")
    ELSE IF Contains(name, "denominator")
    THEN (IF Contains(name, "exit") THEN "exit_tix_subtotal_denominator_idx"
          ELSE "quizzes_subtotal_denominator_idx")
    ELSE IF Contains(name, "last") THEN "first_name_idx"
    ELSE IF Contains(name, "first") THEN "last_name_idx"
    ELSE "none"

\* the columns=... dict of df.rename, in the order it is written
RenamePairs(kind) ==
    IF kind = "LAB"
    THEN << <<"last_name_idx", "Last_Name">>, <<"first_name_idx", "First_Name">>,
            <<"labs_subtotal_numerator_idx", "lab_numerator">>,
            <<"labs_subtotal_denominator_idx", "lab_denominator">>,
            <<"final_project_idx", "dca_score">> >>
    ELSE << <<"last_name_idx", "Last_Name">>, <<"first_name_idx", "First_Name">>,
            <<"exit_tix_subtotal_numerator_idx", "exit_tickets_numerator">>,
            <<"exit_tix_subtotal_denominator_idx", "exit_tickets_denominator">>,
            <<"quizzes_subtotal_numerator_idx", "quizzes_numerator">>,
            <<"quizzes_subtotal_denominator_idx", "quizzes_denominator">> >>

IndexVars(kind) == {RenamePairs(kind)[k][1] : k \in DOMAIN RenamePairs(kind)}

\* the headers, by Python index (from 0), for which the scan assigns the variable
Hits(kind, cols, var) ==
    {i \in 0..(Len(cols) - 1) :
        (IF kind = "LAB" THEN LabBranch(cols[i + 1]) ELSE LectureBranch(cols[i + 1])) = var}

\* "for i, col in enumerate(cols)": every variable starts at -1 and takes the
\* index of each header of its branch in turn, so it ends at the last of them
Scan(kind, cols) ==
    [var \in IndexVars(kind) |->
        IF Hits(kind, cols, var) = {} THEN 0 - 1 ELSE Largest(Hits(kind, cols, var))]

\* cols[i] for a Python index: the position from 1 (cols[-1] is the last column)
PyPosition(cols, i) == IF i < 0 THEN Len(cols) + i + 1 ELSE i + 1

\* df.rename(columns={cols[..idx]: new, ...}): of two entries with one key the
\* later one stays in the dict
Rename(kind, df, idx) ==
    LET pairs == RenamePairs(kind)
        entries(p) == {k \in DOMAIN pairs : PyPosition(Names(df), idx[pairs[k][1]]) = p}
    IN [p \in DOMAIN df |->
          IF entries(p) = {} THEN df[p]
          ELSE [df[p] EXCEPT !.name = <<pairs[Largest(entries(p))][2]>>]]

\* df['Username'] = df['Email'].apply(lambda x: x.split('@')[0]): a new last column
AddUsername(df) ==
    Append(df, [name |-> <<"Username">>,
                values |-> [i \in DOMAIN df[1].values |->
                               Username(Named(df, <<"Email">>).values[i])]])

\* other_cols = df.columns[:-1]; df[other_cols[:4] + ['Username'] + other_cols[4:]]
Reorder(df) ==
    LET other == SubSeq(df, 1, Len(df) - 1)
        n == IF Len(other) < 4 THEN Len(other) ELSE 4
    IN SubSeq(other, 1, n) \o <<Named(df, <<"Username">>)>> \o SubSeq(other, n + 1, Len(other))

\* final_project_maxpoints after the scan: 100, or int(numeric_s) of the last
\* final-project header with 'maxpoints:'; None when int() raised
MaxPointsOf(cols) ==
    LET fp == {p \in DOMAIN cols : LabBranch(cols[p]) = "final_project_idx"
                                    /\ HasMaxPoints(cols[p])}
    IN IF \E p \in fp : NumericS(SplitSecond(cols[p])) = <<>> THEN None
       ELSE IF fp = {} THEN Some(final_project_maxpoints)
       ELSE Some(ToInt(NumericS(SplitSecond(cols[Largest(fp)]))))

\* row.<name> of df.itertuples()
Attr(df, name, i) == IF Has(df, <<name>>) THEN Named(df, <<name>>).values[i] ELSE NoAttr

\* the lab aggregates on the renamed columns
LabFrameRows(df, maxpoints) ==
    LET num == Named(df, <<"lab_numerator">>).values
        den == [i \in DOMAIN df[1].values |-> FillNa(Named(df, <<"lab_denominator">>).values[i])]
        m == Mode(den)
    IN [i \in DOMAIN df[1].values |->
          LET n == FillNa(num[i])
              d == ReplaceZero(den[i], m)
          IN [OrgDefinedId |-> Attr(df, "OrgDefinedId", i),
              Username |-> Attr(df, "Username", i),
              Email |-> Attr(df, "Email", i),
              Last_Name |-> Attr(df, "Last_Name", i),
              First_Name |-> Attr(df, "First_Name", i),
              lab_numerator |-> n,
              lab_denominator |-> d,
              dca_score |-> NormalizeDca(FillNa(Named(df, <<"dca_score">>).values[i]),
                                         maxpoints),
              lab_average |-> Average(n, d)]]

\* the lecture aggregates on the renamed columns
LectureFrameRows(df) ==
    LET eden == [i \in DOMAIN df[1].values |->
                    FillNa(Named(df, <<"exit_tickets_denominator">>).values[i])]
        qden == [i \in DOMAIN df[1].values |->
                    FillNa(Named(df, <<"quizzes_denominator">>).values[i])]
        em == Mode(eden)
        qm == Mode(qden)
    IN [i \in DOMAIN df[1].values |->
          LET en == FillNa(Named(df, <<"exit_tickets_numerator">>).values[i])
              ed == ReplaceZero(eden[i], em)
              qn == FillNa(Named(df, <<"quizzes_numerator">>).values[i])
              qd == ReplaceZero(qden[i], qm)
          IN [OrgDefinedId |-> Attr(df, "OrgDefinedId", i),
              Username |-> Attr(df, "Username", i),
              Email |-> Attr(df, "Email", i),
              Last_Name |-> Attr(df, "Last_Name", i),
              First_Name |-> Attr(df, "First_Name", i),
              exit_tickets_numerator |-> en,
              exit_tickets_denominator |-> ed,
              quizzes_numerator |-> qn,
              quizzes_denominator |-> qd,
              exit_tickets_average |-> Average(en, ed),
              quizzes_average |-> Average(qn, qd)]]

\* LabGradesScraper.parse_data_from_grades_csv from "df['Username'] = ..." on:
\* Username, reorder, scan, rename, aggregates; any exception gives "return False"
LabResolve(frame) ==
    LET df == Reorder(AddUsername(frame))
        idx == Scan("LAB", Names(df))
        maxpoints == MaxPointsOf(Names(df))
        renamed == Rename("LAB", df, idx)
        ok == /\ maxpoints # None
              \* df['lab_numerator'], ...: KeyError without the column
              /\ \A c \in {"lab_numerator", "lab_denominator", "dca_score"} :
                    Has(renamed, <<c>>)
    IN [idx |-> idx, maxpoints |-> maxpoints, ok |-> ok,
        df |-> IF ok THEN LabFrameRows(renamed, Val(maxpoints)) ELSE <<>>]

\* LectureGradesScraper.parse_data_from_grades_csv: Username, scan, rename,
\* reorder, aggregates
LectureResolve(frame) ==
    LET df == AddUsername(frame)
        idx == Scan("LECTURE", Names(df))
        renamed == Rename("LECTURE", df, idx)
        ok == \* df[new_column_order] and df['exit_tickets_numerator'], ...: KeyError
              /\ Has(renamed, <<"Username">>)
              /\ \A c \in {"exit_tickets_numerator", "exit_tickets_denominator",
                            "quizzes_numerator", "quizzes_denominator"} :
                    Has(renamed, <<c>>)
    IN [idx |-> idx, maxpoints |-> None, ok |-> ok,
        df |-> IF ok THEN LectureFrameRows(Reorder(renamed)) ELSE <<>>]

Resolve(kind, frame) == IF kind = "LAB" THEN LabResolve(frame) ELSE LectureResolve(frame)

\* what the gradebook of a section holds for a student, item by item; the
\* final project is graded out of 300, or out of 100 where the header says nothing
Gradebook(id) ==
    [org |-> id, last |-> Identity(id).last, first |-> Identity(id).first,
     email |-> Identity(id).email,
     lab_num |-> IF id = "E001" THEN 45 ELSE 25, lab_den |-> 50,
     final_num |-> IF id = "E001" THEN 80 ELSE 70, final_den |-> 100,
     audit_300 |-> IF id = "E001" THEN 270 ELSE 150,
     audit_part |-> IF id = "E001" THEN 270 ELSE 150,
     audit_final |-> IF id = "E001" THEN 270 ELSE 150,
     audit |-> IF id = "E001" THEN 90 ELSE 50,
     quiz_num |-> IF id = "E001" THEN 40 ELSE 50, quiz_den |-> 50,
     exit_num |-> IF id = "E001" THEN 35 ELSE 25, exit_den |-> 50]

\* the header the export gives the column of an item
Header(item) ==
    CASE item = "org" -> <<"OrgDefinedId">>
      [] item = "last" -> <<"Last", "Name">>
      [] item = "first" -> <<"First", "Name">>
      [] item = "email" -> <<"Email">>
      [] item = "lab_num" -> <<"Labs", "Subtotal", "Numerator">>
      [] item = "lab_den" -> <<"Labs", "Subtotal", "Denominator">>
      [] item = "final_num" -> <<"Calculated", "Final", "Grade", "Numerator">>
      [] item = "final_den" -> <<"Calculated", "Final", "Grade", "Denominator">>
      [] item = "quiz_num" -> <<"Quizzes", "Subtotal", "Numerator">>
      [] item = "quiz_den" -> <<"Quizzes", "Subtotal", "Denominator">>
      [] item = "exit_num" -> <<"Exit", "Tickets", "Subtotal", "Numerator">>
      [] item = "exit_den" -> <<"Exit", "Tickets", "Subtotal", "Denominator">>
      \* "Audit Points Grade <Numeric MaxPoints:300 Weight:10>"
      [] item = "audit_300" -> <<"Audit", "Points", "Grade", "<Numeric", "MaxPoints", ":",
                                 "300", "Weight", ":", "10", ">">>
      \* "Audit: Part 2 Points Grade <Numeric MaxPoints:300>"
      [] item = "audit_part" -> <<"Audit", ":", "Part", "2", "Points", "Grade", "<Numeric",
                                  "MaxPoints", ":", "300", ">">>
      \* "Audit: Final Points Grade <Numeric MaxPoints:300>"
      [] item = "audit_final" -> <<"Audit", ":", "Final", "Points", "Grade", "<Numeric",
                                   "MaxPoints", ":", "300", ">">>
      \* "Audit Points Grade"
      [] OTHER -> <<"Audit", "Points", "Grade">>

\* the columns of the exports, after the End-of-Line Indicator is dropped:
\* the usual one, one without the maxpoints token, one with the final-grade
\* columns selected too, ones that miss a column, ones with a ":" in the item name
Layouts(kind) ==
    IF kind = "LAB"
    THEN { <<"org", "last", "first", "email", "lab_num", "lab_den", "audit_300">>,
           <<"org", "last", "first", "email", "lab_num", "lab_den", "audit">>,
           <<"org", "last", "first", "email", "lab_num", "lab_den", "final_num",
             "final_den", "audit_300">>,
           <<"org", "first", "email", "lab_num", "lab_den", "audit_300">>,
           <<"org", "last", "first", "email", "lab_den", "audit_300">>,
           <<"org", "last", "first", "email", "lab_num", "lab_den">>,
           <<"org", "last", "first", "email", "lab_num", "lab_den", "audit_part">>,
           <<"org", "last", "first", "email", "lab_num", "lab_den", "audit_final">> }
    ELSE { <<"org", "last", "first", "email", "quiz_num", "quiz_den", "exit_num",
             "exit_den">>,
           <<"org", "last", "first", "email", "exit_num", "exit_den", "quiz_num",
             "quiz_den">>,
           <<"org", "last", "first", "email", "quiz_num", "quiz_den", "exit_num",
             "exit_den", "final_num", "final_den">>,
           <<"org", "first", "email", "quiz_num", "quiz_den", "exit_num", "exit_den">>,
           <<"org", "last", "first", "email", "quiz_num", "quiz_den">> }

\* pd.read_csv of the export: one column per item of the layout, one cell per
\* student of the roster
Frame(layout, roster) ==
    [p \in DOMAIN layout |->
        [name |-> Header(layout[p]),
         values |-> [i \in DOMAIN roster |-> Gradebook(roster[i])[layout[p]]]]]

\* the store before the table is saved: empty, or holding the students of the
\* section already, from the usual table of the other flow for another section
StoresBefore(kind, roster) ==
    LET other == IF kind = "LAB" THEN "LECTURE" ELSE "LAB"
        usual == IF other = "LAB"
                 THEN <<"org", "last", "first", "email", "lab_num", "lab_den", "audit_300">>
                 ELSE <<"org", "last", "first", "email", "quiz_num", "quiz_den", "exit_num",
                        "exit_den">>
    IN {EmptyStore,
        SaveTable(EmptyStore, other,
                  [ou |-> "102", name |-> PageName("102"),
                   df |-> Resolve(other, Frame(usual, roster)).df],
                  "202580").db}

\* one call of parse_data_from_grades_csv(course_name, ou) on a downloaded export
ResolveParse ==
    /\ res.state = "idle"
    /\ \E kind \in Kinds :
       \E layout \in Layouts(kind),
          roster \in { <<"E001">>, <<"E002">>, <<"E001", "E002">>, <<"E002", "E001">> } :
       \E pre \in StoresBefore(kind, roster) :
         LET frame == Frame(layout, roster)
             r == Resolve(kind, frame)
         IN res' = [state |-> "parsed", kind |-> kind, frame |-> frame, idx |-> r.idx,
                    ok |-> r.ok, maxpoints |-> r.maxpoints,
                    map |-> IF r.ok
                            THEN <<[ou |-> "101", name |-> PageName("101"), df |-> r.df]>>
                            ELSE <<>>,
                    pre |-> pre, store |-> pre, raised |-> FALSE]
    /\ UNCHANGED <<pc, run, workers, results, si, ti, ri, committed, session, sessions, hist,
                   alg, pool, calc>>

\* save_grades_to_db of the scraper: "for course_info, df in
\* self.grades_dataframes_map.items()" over the one table, or over none
ResolveSave ==
    /\ res.state = "parsed"
    /\ LET r == IF res.map = <<>> THEN [raised |-> FALSE, db |-> res.store]
                ELSE SaveTable(res.store, res.kind, res.map[1], "202580")
       IN res' = [res EXCEPT !.state = "saved", !.store = r.db, !.raised = r.raised]
    /\ UNCHANGED <<pc, run, workers, results, si, ti, ri, committed, session, sessions, hist,
                   alg, pool, calc>>

NextResolve == ResolveParse \/ ResolveSave

SpecResolve == Init /\ [][NextResolve]_vars

-----------------------------------------------------------------------------
(* Claims about a run: checked under Spec *)

\* C1: no session on the Grade Store is opened while a Phase-1 worker task is
\* still running; the store is first touched after run() has returned every
\* worker's result, all workers joined.
C1_TwoPhaseBarrier ==
    (sessions > 0 \/ hist.opened > 0) =>
        /\ \A w \in DOMAIN workers : workers[w].state # "running"
        /\ Len(results) = run.num_workers
        /\ pc \in {"phase2", "saving", "done"}

C1_Witness ==
    /\ hist.opened > 0
    /\ run.num_workers = 2
    /\ committed # EmptyStore

\* position of a site identifier in the list handed to the call
PosIn(items, ou) == CHOOSE i \in DOMAIN items : items[i] = ou

LexLess(a, b) ==
    \E k \in DOMAIN a :
        /\ k \in DOMAIN b
        /\ a[k] < b[k]
        /\ \A j \in 1..(k - 1) : a[j] = b[j]

Increasing(log) ==
    \A i \in DOMAIN log : \A j \in DOMAIN log : i < j => LexLess(log[i].at, log[j].at)

\* the table the distributor returned at <<scraper index, table index>>
ReturnedTable(at) == workers[results[at[1]]].grades_dataframes_map[at[2]]

\* the distributor returned a table at that place, and it is the table of section ou
IsReturned(at, ou) ==
    /\ at[1] \in DOMAIN results
    /\ at[2] \in DOMAIN workers[results[at[1]]].grades_dataframes_map
    /\ ReturnedTable(at).ou = ou

\* C2: Phase 2 is a single writer: at most one session is open at any time,
\* the tables are persisted in the order the distributor returned them (worker
\* by worker, which for contiguous chunks is the order of the input list) and
\* the rows of a table in source order.
C2_SingleWriterInOrder ==
    /\ sessions <= 1
    /\ Increasing(hist.rows)
    /\ Increasing(hist.commits)
    /\ \A i \in DOMAIN hist.commits : IsReturned(hist.commits[i].at, hist.commits[i].ou)
    /\ \A i \in DOMAIN hist.rows :
         /\ IsReturned(hist.rows[i].at, ReturnedTable(hist.rows[i].at).ou)
         /\ hist.rows[i].at[3] \in DOMAIN ReturnedTable(hist.rows[i].at).df
         /\ hist.rows[i].id = ReturnedTable(hist.rows[i].at).df[hist.rows[i].at[3]].OrgDefinedId
    /\ \A i \in DOMAIN hist.commits : \A j \in DOMAIN hist.commits :
         i < j => PosIn(run.items, hist.commits[i].ou) < PosIn(run.items, hist.commits[j].ou)

C2_Witness ==
    /\ Len(hist.commits) = 2
    /\ hist.commits[1].at[1] # hist.commits[2].at[1]
    /\ Len(hist.rows) >= 3

\* C3: a table that fails leaves the store as it was before the table started
\* (nothing written for it is visible, while it runs or after the failure) and
\* the error reaches the caller, which counts it.
C3_PerTableAtomicity ==
    /\ (pc = "saving" /\ ri >= 1) => committed = hist.tableStart
    /\ (pc = "phase2" /\ hist.outcome = "raised") =>
          /\ committed = hist.tableStart
          /\ session = committed
          /\ sessions = 0
          /\ hist.errors = Cardinality(hist.failed)
          /\ hist.failed # {}

C3_Witness ==
    /\ pc = "phase2"
    /\ hist.outcome = "raised"
    /\ hist.dirty
    /\ committed # EmptyStore

\* the tables Phase 2 was handed, as <<scraper index, table index>>
ReturnedTables ==
    {st \in (DOMAIN results) \X (1..MaxItems) :
        st[2] <= Len(workers[results[st[1]]].grades_dataframes_map)}

\* C4: a table that fails to commit never keeps a later table of Phase-2 order
\* from being persisted, whichever worker returned it.
C4_PersistFailureIsolation ==
    pc = "done" =>
        \A f \in hist.failed : \A st \in ReturnedTables :
            LexLess(f, st) => st \in hist.attempted

\* a section of the worker's chunk was walked and left no table
SectionFailed(w) == workers[w].pos > Len(workers[w].grades_dataframes_map)

\* C5: when a Phase-1 worker fails for one section, the tables the other
\* workers produced are still persisted in Phase 2 (the runs in which Phase 2
\* itself met no failure are enough to tell).
C5_Phase1FailureIsolation ==
    (pc \in {"done", "aborted"} /\ hist.failed = {}) =>
        \A w \in DOMAIN workers : SectionFailed(w) =>
            \A v \in DOMAIN workers \ {w} : workers[v].state = "returned" =>
                \A t \in DOMAIN workers[v].grades_dataframes_map :
                    \E k \in DOMAIN results :
                        results[k] = v /\ <<k, t>> \in hist.attempted

-----------------------------------------------------------------------------
(* Claims about ingestion sequences: checked under SpecStore and SpecStoreAny *)

\* the last call of save_grades_to_db, and the one before it
Last == alg.log[Len(alg.log)]
Prev == alg.log[1]

\* the ids of the rows of a parsed table
IdsOf(tbl) == {tbl.df[i].OrgDefinedId : i \in DOMAIN tbl.df}

\* the last two calls both persisted their table
BothPersisted == Len(alg.log) = 2 /\ Prev.ok /\ Last.ok

\* the same table for the same Section was persisted twice in a row
SameTableTwice ==
    /\ BothPersisted
    /\ Prev.kind = Last.kind /\ Prev.tbl = Last.tbl /\ Prev.semester = Last.semester

\* C6: persisting an identical table a second time for the same Section adds
\* exactly one GradeSnapshot per row, leaves every CurrentGrade as the first
\* ingestion left it, and adds no Student, Section or CurrentGrade row.
C6_Idempotence ==
    SameTableTwice =>
        /\ Len(alg.store.snaps) = Len(Last.pre.snaps) + Len(Last.tbl.df)
        /\ SubSeq(alg.store.snaps, 1, Len(Last.pre.snaps)) = Last.pre.snaps
        /\ alg.store.grades = Last.pre.grades
        /\ alg.store.students = Last.pre.students
        /\ alg.store.courses = Last.pre.courses

C6_Witness ==
    /\ SameTableTwice
    /\ Len(Last.tbl.df) = 2
    /\ Len(alg.store.snaps) = 4
    /\ Cardinality(alg.store.grades) = 2

\* C7: whatever lab and lecture ingestions were made, persisted or failed, the
\* store holds at most one CurrentGrade row per (student identifier, semester).
C7_OneCurrentGradePerStudentSemester ==
    \A g \in alg.store.grades : \A h \in alg.store.grades :
        (g.student_id = h.student_id /\ g.semester = h.semester) => g = h

\* a table with a repeated identifier was refused, another one was persisted
C7_Witness ==
    /\ Len(alg.log) = 2
    /\ Len(Last.tbl.df) > Cardinality(IdsOf(Last.tbl))
    /\ ~Last.ok
    /\ Prev.ok
    /\ alg.store.grades # {}

LectureSide(g) ==
    <<g.lecture_course_ou, g.quizzes_numerator, g.quizzes_denominator, g.quizzes_average,
      g.exit_tickets_numerator, g.exit_tickets_denominator, g.exit_tickets_average>>

LabSide(g) ==
    <<g.lab_course_ou, g.lab_numerator, g.lab_denominator, g.lab_average, g.dca_score>>

OtherSide(kind, g) == IF kind = "LAB" THEN LectureSide(g) ELSE LabSide(g)

\* C8: a lab ingestion leaves the lecture reference and the quiz and exit-ticket
\* numerator, denominator and average of every CurrentGrade unchanged; a lecture
\* ingestion leaves its lab reference, lab numerator, denominator and average
\* and final-project score unchanged.
C8_SideDisjointWrites ==
    alg.log # <<>> =>
        \A g \in Last.pre.grades :
            \E h \in alg.store.grades :
                /\ h.student_id = g.student_id /\ h.semester = g.semester
                /\ OtherSide(Last.kind, h) = OtherSide(Last.kind, g)

\* a lecture table was persisted over a CurrentGrade that holds a final-project score
C8_Witness ==
    /\ alg.log # <<>>
    /\ Last.kind = "LECTURE" /\ Last.ok
    /\ \E g \in Last.pre.grades :
          /\ g.student_id \in IdsOf(Last.tbl)
          /\ g.dca_score # None /\ Val(g.dca_score) > 0
          /\ g \notin alg.store.grades

\* C9: for one student and semester, a LAB table then a LECTURE table leave the
\* same CurrentGrade component fields and the same pre-final and post-final
\* grades as the two tables in the opposite order.
C9_LabLectureCommute ==
    (Len(alg.log) = 2 /\ Prev.kind # Last.kind /\ Prev.semester = Last.semester) =>
        alg.store.grades = alg.swapped.grades

\* a student of both tables ends with a post-final grade
C9_Witness ==
    /\ BothPersisted
    /\ Prev.kind = "LAB" /\ Last.kind = "LECTURE"
    /\ Prev.pre = EmptyStore
    /\ \E g \in alg.store.grades :
          /\ g.student_id \in IdsOf(Prev.tbl) \cap IdsOf(Last.tbl)
          /\ g.overall_grade_post_final # None

\* the side of a CurrentGrade as a row of a table of that type sets it
SideOfRow(kind, ou, row) ==
    IF kind = "LAB"
    THEN <<Some(ou), Some(FloatOrZero(row.lab_numerator)),
           Some(FloatOrZero(row.lab_denominator)), Some(FloatOrZero(row.lab_average)),
           Some(FloatOrZero(row.dca_score))>>
    ELSE <<Some(ou), Some(FloatOrZero(row.quizzes_numerator)),
           Some(FloatOrZero(row.quizzes_denominator)),
           Some(FloatOrZero(row.quizzes_average)),
           Some(FloatOrZero(row.exit_tickets_numerator)),
           Some(FloatOrZero(row.exit_tickets_denominator)),
           Some(FloatOrZero(row.exit_tickets_average))>>

OwnSide(kind, g) == IF kind = "LAB" THEN LabSide(g) ELSE LectureSide(g)

\* C10: when two tables of the same type that hold the same student are
\* persisted for one semester, the student's CurrentGrade fields of that side
\* and its Section reference are those of the table persisted later.
C10_LastWriteWins ==
    (BothPersisted /\ Prev.kind = Last.kind /\ Prev.semester = Last.semester) =>
        \A i \in DOMAIN Last.tbl.df :
            Last.tbl.df[i].OrgDefinedId \in IdsOf(Prev.tbl) =>
                \E g \in alg.store.grades :
                    /\ g.student_id = Last.tbl.df[i].OrgDefinedId
                    /\ g.semester = Last.semester
                    /\ OwnSide(Last.kind, g) = SideOfRow(Last.kind, Last.tbl.ou, Last.tbl.df[i])

\* two LAB sections with different grades for a student of both
C10_Witness ==
    /\ BothPersisted
    /\ Prev.kind = "LAB" /\ Last.kind = "LAB"
    /\ Prev.tbl.ou # Last.tbl.ou
    /\ \E i \in DOMAIN Prev.tbl.df : \E j \in DOMAIN Last.tbl.df :
          /\ Prev.tbl.df[i].OrgDefinedId = Last.tbl.df[j].OrgDefinedId
          /\ Prev.tbl.df[i].lab_average # Last.tbl.df[j].lab_average

\* C11: once a Section exists for a site identifier, no later ingestion for that
\* identifier changes its course name, type, section code or semester, whatever
\* the later observation carries.
C11_SectionFirstWriteWins ==
    alg.log # <<>> =>
        /\ Last.pre.courses \subseteq alg.store.courses
        /\ \A c \in alg.store.courses : \A d \in alg.store.courses : c.ou = d.ou => c = d

\* the section was persisted again under another page name and another semester
C11_Witness ==
    /\ alg.log # <<>>
    /\ Last.ok
    /\ \E c \in Last.pre.courses :
          /\ c.ou = Last.tbl.ou
          /\ c.course_name # <<Last.tbl.name[1], Last.tbl.name[2]>>
          /\ c.section # Last.tbl.name[3]
          /\ c.semester # Last.semester

\* C12: when an ingestion observes another name or email for a stored student
\* identifier, the stored Student's name and email become the observed ones.
C12_StudentLastWriteWins ==
    (alg.log # <<>> /\ Last.ok) =>
        \A i \in DOMAIN Last.tbl.df :
            \E st \in alg.store.students :
                /\ st.org_defined_id = Last.tbl.df[i].OrgDefinedId
                /\ st.email = Last.tbl.df[i].Email
                /\ st.username = Last.tbl.df[i].Username
                /\ st.last_name = Last.tbl.df[i].Last_Name
                /\ st.first_name = Last.tbl.df[i].First_Name

\* C13: a committed table adds exactly one snapshot per row for (student,
\* Section); no ingestion changes or removes a snapshot committed earlier.
C13_SnapshotAppendOnly ==
    alg.log # <<>> =>
        /\ Len(alg.store.snaps) >= Len(Last.pre.snaps)
        /\ SubSeq(alg.store.snaps, 1, Len(Last.pre.snaps)) = Last.pre.snaps
        /\ Last.ok =>
              /\ Len(alg.store.snaps) = Len(Last.pre.snaps) + Len(Last.tbl.df)
              /\ \A i \in DOMAIN Last.tbl.df :
                    /\ alg.store.snaps[Len(Last.pre.snaps) + i].student_id
                          = Last.tbl.df[i].OrgDefinedId
                    /\ alg.store.snaps[Len(Last.pre.snaps) + i].course_ou = Last.tbl.ou
        /\ ~Last.ok => alg.store.snaps = Last.pre.snaps

\* a section is persisted a second time, with other values for a student it had
C13_Witness ==
    /\ BothPersisted
    /\ Prev.tbl.ou = Last.tbl.ou /\ Prev.kind = Last.kind
    /\ Prev.tbl.df # Last.tbl.df
    /\ Len(Last.tbl.df) = 2
    /\ IdsOf(Prev.tbl) \subseteq IdsOf(Last.tbl)
    /\ Len(alg.store.snaps) = 3

-----------------------------------------------------------------------------
(* Claims about the worker pools: checked under SpecDistribute and SpecPool *)

\* the chunks one after the other, in worker order
RECURSIVE Flatten(_)
Flatten(seqs) == IF seqs = <<>> THEN <<>> ELSE Head(seqs) \o Flatten(Tail(seqs))

Distributed(strategy) == pool.state = "distributed" /\ pool.strategy = strategy

\* C14: for N items and W >= 1 workers _distribute_items_chunked returns W
\* chunks whose concatenation in worker order is the list; the first N mod W
\* chunks hold floor(N/W)+1 items and the others floor(N/W); N=10, W=3 gives
\* the sizes 4, 3, 3.
C14_ContiguousChunks ==
    Distributed("chunked") =>
        LET n == Len(pool.items)
            w == pool.num_workers
        IN /\ Len(pool.buckets) = w
           /\ Flatten(pool.buckets) = pool.items
           /\ \A k \in 1..w :
                 Len(pool.buckets[k]) = (n \div w) + (IF k <= n % w THEN 1 ELSE 0)
           /\ \A k \in 1..w : \A m \in 1..w :
                 Len(pool.buckets[k]) - Len(pool.buckets[m]) <= 1
           /\ (n = 10 /\ w = 3) =>
                 <<Len(pool.buckets[1]), Len(pool.buckets[2]), Len(pool.buckets[3])>>
                    = <<4, 3, 3>>

C14_Witness ==
    /\ Distributed("chunked")
    /\ Len(pool.items) = 10
    /\ pool.num_workers = 3
    /\ pool.buckets[1] = <<1, 2, 3, 4>>

\* the places of the buckets that hold the item
PlacesOf(item) ==
    {<<k, i>> \in (DOMAIN pool.buckets) \X (1..Len(pool.items)) :
        i <= Len(pool.buckets[k]) /\ pool.buckets[k][i] = item}

\* C15: for N items and W >= 1 workers the round-robin distribution puts item
\* i in bucket i mod W, every item in exactly one bucket, and keeps the items'
\* relative order inside a bucket.
C15_RoundRobin ==
    Distributed("round_robin") =>
        /\ Len(pool.buckets) = pool.num_workers
        /\ \A i \in DOMAIN pool.items :
              /\ Cardinality(PlacesOf(pool.items[i])) = 1
              /\ \E pl \in PlacesOf(pool.items[i]) : pl[1] = ((i - 1) % pool.num_workers) + 1
        /\ \A k \in DOMAIN pool.buckets :
              /\ \A a \in DOMAIN pool.buckets[k] : pool.buckets[k][a] \in DOMAIN pool.items
              /\ \A a \in DOMAIN pool.buckets[k] : \A b \in DOMAIN pool.buckets[k] :
                    a < b => pool.buckets[k][a] < pool.buckets[k][b]

C15_Witness ==
    /\ Distributed("round_robin")
    /\ Len(pool.items) = 7
    /\ pool.num_workers = 3
    /\ pool.buckets = << <<1, 4, 7>>, <<2, 5>>, <<3, 6>> >>

\* run() has returned or raised
PoolLeft == pool.state \in {"returned", "raised"}

\* C16: if any worker task raises, run() raises and returns no results, the
\* results of the workers that succeeded included; the other workers are not
\* cancelled and run to their own completion.
C16_DistributorErrorPolicy ==
    (PoolLeft /\ \E j \in DOMAIN pool.jobs : pool.jobs[j] # "ok") =>
        /\ pool.state = "raised"
        /\ pool.returned = None
        /\ \A j \in DOMAIN pool.jobs : pool.jobs[j] \in {"ok", "raised"}

\* run() raised after it had taken a result, with two jobs left untaken, one of
\* them a job that succeeded
C16_Witness ==
    /\ pool.state = "raised"
    /\ pool.taken # <<>>
    /\ Len(pool.taken) + 2 <= pool.num_workers
    /\ \E j \in DOMAIN pool.jobs : pool.jobs[j] = "ok" /\ \A k \in DOMAIN pool.taken : pool.taken[k] # j

\* C17: with either strategy the order of the results run() returns is fixed by
\* the item order and W: a second run of the same pool returns them in the
\* order of the first, however the workers finish.
C17_DeterministicResultOrder ==
    (pool.state = "returned" /\ pool.earlier # None) => pool.returned = pool.earlier

-----------------------------------------------------------------------------
(* Claims about the aggregates and the derived fields *)

\* the denominators an average of the row was computed with
DenominatorsOf(kind, row) ==
    IF kind = "LAB" THEN {row.lab_denominator}
    ELSE {row.quizzes_denominator, row.exit_tickets_denominator}

\* C18: after mode substitution no denominator used for an average is zero,
\* whatever the values of the denominator column are.
C18_ZeroDenominatorPolicy ==
    alg.log # <<>> =>
        \A i \in DOMAIN Last.tbl.df : 0 \notin DenominatorsOf(Last.kind, Last.tbl.df[i])

Computed1 == calc.state = "computed"

PresentOr0(x) == IF x = None THEN 0 ELSE Val(x)

ComponentSum(g) ==
    PresentOr0(g.lab_average) + PresentOr0(g.quizzes_average)
        + PresentOr0(g.exit_tickets_average)

NoComponent(g) ==
    g.lab_average = None /\ g.quizzes_average = None /\ g.exit_tickets_average = None

\* C19: pre_final is the sum of the non-null ones among lab_average,
\* quizzes_average and exit_tickets_average divided by 3, whatever their number,
\* and undefined when none is present; post_final is (pre_final + dca_score) / 2
\* exactly when pre_final is defined and dca_score is defined and > 0, and
\* undefined otherwise; current_grade is post_final if defined, else pre_final.
C19_OverallGrade ==
    Computed1 =>
        LET g == calc.before
            a == calc.after
            pre == a.overall_grade_pre_final
            post == a.overall_grade_post_final
            final == pre # None /\ g.dca_score # None /\ Val(g.dca_score) > 0
        IN /\ NoComponent(g) <=> pre = None
           /\ pre # None => 3 * Val(pre) = ComponentSum(g)
           /\ final <=> post # None
           /\ post # None => 2 * Val(post) = Val(pre) + Val(g.dca_score)
           /\ calc.current_grade = IF post # None THEN post ELSE pre

\* one component only, with a final project, over stale overall grades
C19_Witness ==
    /\ Computed1
    /\ calc.before.lab_average = Some(Pct(90))
    /\ calc.before.quizzes_average = None
    /\ calc.before.exit_tickets_average = None
    /\ calc.before.overall_grade_pre_final = Some(Pct(10))
    /\ calc.after.overall_grade_pre_final = Some(Pct(30))
    /\ calc.after.overall_grade_post_final = Some(Pct(40))
    /\ calc.current_grade = Some(Pct(40))

\* C20: has_final_project is true exactly when the stored final-project score
\* is defined and > 0: a raw score of 0 gives false, a raw score > 0 gives true
\* for every max-points >= 1; on a row whose pre_final is defined it is true
\* exactly when post_final is defined.
C20_HasFinalProject ==
    Computed1 =>
        /\ calc.has_final_project
              <=> (calc.after.dca_score # None /\ Val(calc.after.dca_score) > 0)
        /\ calc.raw # None => (calc.has_final_project <=> Val(calc.raw) > 0)
        /\ calc.after.overall_grade_pre_final # None =>
              (calc.has_final_project <=> calc.after.overall_grade_post_final # None)

\* a raw score of 1 out of 300 points
C20_Witness ==
    /\ Computed1
    /\ calc.raw = Some(1)
    /\ calc.maxpoints = Some(3 * final_project_maxpoints)
    /\ calc.has_final_project
    /\ calc.after.overall_grade_post_final # None

-----------------------------------------------------------------------------
(* Claims about values over 100% and the typed references *)

\* the averages of a parsed row, by the StudentGrade field that takes them
AveragesOf(kind, row) ==
    IF kind = "LAB" THEN {<<"lab_average", row.lab_average>>}
    ELSE {<<"quizzes_average", row.quizzes_average>>,
          <<"exit_tickets_average", row.exit_tickets_average>>}

\* a finite average over 100%
Over100(v) == v > Pct(100) /\ v # Inf

StoredAverage(g, field) ==
    IF field = "lab_average" THEN g.lab_average
    ELSE IF field = "quizzes_average" THEN g.quizzes_average
    ELSE g.exit_tickets_average

\* C21: when a row's numerator exceeds its denominator, the average carried
\* into GradeSnapshot and CurrentGrade is 100 * numerator / denominator, over
\* 100 and not clamped.
C21_Over100Preserved ==
    alg.log # <<>> =>
        \A i \in DOMAIN Last.tbl.df : \A fv \in AveragesOf(Last.kind, Last.tbl.df[i]) :
            Over100(fv[2]) =>
                /\ \E g \in alg.store.grades :
                      /\ g.student_id = Last.tbl.df[i].OrgDefinedId
                      /\ g.semester = Last.semester
                      /\ StoredAverage(g, fv[1]) = Some(fv[2])
                /\ \E k \in DOMAIN alg.store.snaps :
                      /\ alg.store.snaps[k].student_id = Last.tbl.df[i].OrgDefinedId
                      /\ alg.store.snaps[k].course_ou = Last.tbl.ou
                      /\ StoredAverage(alg.store.snaps[k], fv[1]) = Some(fv[2])

\* the Sections a reference of a CurrentGrade points to
Referenced(ref) == IF ref = None THEN {} ELSE CourseOf(alg.store, Val(ref))

\* C25: after any sequence of lab and lecture ingestions, the lab reference of
\* every CurrentGrade points to a Section of type LAB and its lecture reference
\* to a Section of type LECTURE, a Section created by the lecture flow included.
C25_TypedSectionReferences ==
    \A g \in alg.store.grades :
        /\ \A c \in Referenced(g.lab_course_ou) : c.course_type = "LAB"
        /\ \A c \in Referenced(g.lecture_course_ou) : c.course_type = "LECTURE"

\* the overall grades a stored CurrentGrade would get from its own components
Recomputed(g) == calculate_overall_grades(g)

\* C28: in every committed state of the store, the pre-final and post-final
\* grades of each CurrentGrade are those calculate_overall_grades gives for the
\* components stored in the same row.
C28_DerivedFieldsConsistent ==
    \A g \in alg.store.grades :
        /\ g.overall_grade_pre_final = Recomputed(g).overall_grade_pre_final
        /\ g.overall_grade_post_final = Recomputed(g).overall_grade_post_final

\* a lab table has been stored over a CurrentGrade the lecture flow had made,
\* and the overall grades of that row changed with it
C28_Witness ==
    /\ BothPersisted
    /\ Prev.kind = "LECTURE" /\ Last.kind = "LAB"
    /\ \E g \in alg.store.grades : \E h \in Last.pre.grades :
          /\ g.student_id = h.student_id /\ g.semester = h.semester
          /\ g.student_id \in IdsOf(Last.tbl)
          /\ h.overall_grade_pre_final # None
          /\ g.overall_grade_pre_final # h.overall_grade_pre_final
          /\ g.overall_grade_post_final # None

-----------------------------------------------------------------------------
(* Claims about the end of run() *)

\* C29: when run() of either pool returns or raises, every worker task it
\* submitted has finished, completed or failed; none is still running, also
\* when the failure of an earlier worker is being propagated.
C29_JoinOnExit ==
    PoolLeft => \A j \in DOMAIN pool.jobs : pool.jobs[j] \in {"ok", "raised"}

\* run() of the chunked pool has raised the failure of its first worker, and
\* the last of three workers, whose result was never asked for, has completed
C29_Witness ==
    /\ pool.state = "raised"
    /\ pool.strategy = "chunked"
    /\ pool.num_workers = MaxRunWorkers
    /\ pool.taken = <<>>
    /\ pool.jobs[1] = "raised"
    /\ pool.jobs[pool.num_workers] = "ok"

-----------------------------------------------------------------------------
(* Claims about the parse retry of a worker *)

\* the entries of a worker's table map for one section
EntriesOf(w, ou) ==
    {k \in DOMAIN workers[w].grades_dataframes_map :
        workers[w].grades_dataframes_map[k].ou = ou}

\* the calls of parse_data_from_grades_csv made for the section just processed
ParseSucceeded(w) == \E i \in DOMAIN workers[w].attempts : workers[w].attempts[i] = "ok"

-----------------------------------------------------------------------------
(* Claims about what the workers of Phase 1 share *)

RunningTogether(w, v) ==
    /\ w \in DOMAIN workers /\ v \in DOMAIN workers /\ w # v
    /\ workers[w].state = "running" /\ workers[v].state = "running"

\* C26: two Phase-1 workers running at the same time never write the same
\* object or resource: each has its own logger and handlers, its own download
\* directory and its own file-deletion list.
C26_NoSharedWrites ==
    \A w \in 1..MaxWorkers, v \in 1..MaxWorkers :
        RunningTogether(w, v) => WritesOf(run.kind, w) \cap WritesOf(run.kind, v) = {}

-----------------------------------------------------------------------------
(* Claims about column resolution: checked under SpecResolve *)

\* the headers the scan goes over: after the reorder in the lab flow, before
\* it in the lecture flow
ScannedHeaders ==
    IF res.kind = "LAB" THEN Names(Reorder(AddUsername(res.frame)))
    ELSE Names(AddUsername(res.frame))

HasParsed == res.state # "idle"

\* the headers that satisfy the predicate of an index variable
Candidates(var) == Hits(res.kind, ScannedHeaders, var)

\* C22: when several headers of a table satisfy the same predicate, as two
\* headers containing "numerator" do, the column resolved is the one at the
\* lowest positional index.
C22_FirstMatchWins ==
    HasParsed =>
        \A var \in IndexVars(res.kind) :
            Candidates(var) # {} => res.idx[var] = Smallest(Candidates(var))

\* a required semantic column has no header in the table
MissingRequired == \E var \in IndexVars(res.kind) : Candidates(var) = {}

\* C23: if a required semantic column (a name column, a numerator, a
\* denominator, for LAB the final-project column) cannot be located, the
\* resolution of the table fails: the table is not added to the worker's
\* result map and nothing from it is written to the store.
C23_ResolutionFailsClosed ==
    (HasParsed /\ MissingRequired) =>
        /\ ~res.ok
        /\ res.map = <<>>
        /\ res.store = res.pre

\* the cells of the source columns whose header contains the word, for a student
SourceCells(word, org_id) ==
    {res.frame[p].values[i] : p \in {q \in DOMAIN res.frame : Contains(res.frame[q].name, word)},
                              i \in {j \in DOMAIN res.frame[1].values :
                                        Named(res.frame, <<"OrgDefinedId">>).values[j] = org_id}}

\* C24: the column whose header contains "last" becomes the last name and the
\* column whose header contains "first" the first name: a Student stored from
\* the table has in last_name and first_name the values of those columns.
C24_IdentityResolution ==
    (res.state = "saved" /\ ~res.raised) =>
        \A st \in res.store.students \ res.pre.students :
            /\ \A v \in SourceCells("last", st.org_defined_id) : st.last_name = v
            /\ \A v \in SourceCells("first", st.org_defined_id) : st.first_name = v

\* the integer of the token maxpoints:<integer> of a header, 100 without one
EmbeddedMaxPoints(name) ==
    IF HasMaxPoints(name)
    THEN LET k == CHOOSE j \in DOMAIN name :
                     Lower(name[j]) = "maxpoints" /\ j + 1 \in DOMAIN name /\ name[j + 1] = ":"
         IN IF k + 2 \in DOMAIN name THEN ToInt(DigitsOf(name[k + 2])) ELSE 0
    ELSE final_project_maxpoints

\* C27: dca_score is 100 * raw_score / max_points, max_points being the integer
\* embedded as maxpoints:<integer> in the final-project header and 100 without
\* such a token, and lab_average is 100 * numerator / denominator: 45/50 gives
\* 90, a raw 270 with maxpoints 300 gives 90.
C27_FinalProjectNormalization ==
    (HasParsed /\ res.kind = "LAB" /\ res.ok /\ Candidates("final_project_idx") # {}) =>
        LET p == PyPosition(ScannedHeaders, res.idx["final_project_idx"])
            scanned == Reorder(AddUsername(res.frame))
        IN \A i \in DOMAIN res.map[1].df :
              /\ res.map[1].df[i].dca_score =
                    NormalizeDca(FillNa(scanned[p].values[i]), EmbeddedMaxPoints(scanned[p].name))
              /\ res.map[1].df[i].lab_average =
                    Average(res.map[1].df[i].lab_numerator, res.map[1].df[i].lab_denominator)

=============================================================================
